---- MODULE Spec2Model ----
(***************************************************************************)
(* A model of the two notebooks of the repository:                         *)
(*   posts/text-summarizer.ipynb         summarize(text, p, scoring)       *)
(*   posts/markov-chains-in-python.ipynb class Markov                      *)
(*                                                                         *)
(* summarize is a pure function; Init draws its arguments and the results  *)
(* of the library calls it makes on them (the tf-idf row sums, the pdist   *)
(* vector) from bounded sets, and the actions are the statements of its    *)
(* body in order.  Python's 0-based positions are kept as values; TLA+     *)
(* sequences holding them are 1-based.                                     *)
(***************************************************************************)
EXTENDS Integers, Sequences, FiniteSets, TLC

VARIABLES
    blob,           \* blob.sentences: <<[text, terms]>>, one record per sentence
    length_spec,    \* the argument p as passed by the caller
    scoring,        \* the argument scoring
    tfidf,          \* c.sum() of each row of the TfidfVectorizer matrix
    pd,             \* pdist(dtm, scoring): the condensed distance vector
    p,              \* the local p (reassigned at line 54)
    scores,         \* the list scores: <<[i, s]>>
    top_sentences,  \* the list top_sentences
    summary,        \* the list summary
    result,         \* the returned blob: the texts of its sentences
    pc,             \* position in the body of summarize
    err,            \* the exception the call ended in, "" when none
    state_dict,     \* Markov.state_dict
    state,          \* Markov.state
    out,            \* the last line a Markov method printed
    exc             \* the exception the last Markov call raised, "" when none

sumVars == <<blob, length_spec, scoring, tfidf, pd, p, scores, top_sentences,
             summary, result, pc, err>>
markovVars == <<state_dict, state, out, exc>>
vars == <<blob, length_spec, scoring, tfidf, pd, p, scores, top_sentences,
          summary, result, pc, err, state_dict, state, out, exc>>

----------------------------------------------------------------------------
(* Bounds of the model *)

\* most sentences of a document in Spec
MaxSentences == 3
\* largest tf-idf row sum of a sentence with a term
MaxScore == 2
\* largest pairwise distance
MaxDist == 2
\* most sentences of a document in LenSpec
MaxDocLen == 10
\* largest tf-idf row sum in LenSpec
MaxScoreLen == 1

----------------------------------------------------------------------------
(* Numbers *)

\* A Python float that is a score or a distance: not-a-number, or num/den.
NaN == [nan |-> TRUE, num |-> 0, den |-> 1]
Num(n) == [nan |-> FALSE, num |-> n, den |-> 1]

\* a < b and a == b on floats: every comparison with nan is False.
FLt(a, b) == ~a.nan /\ ~b.nan /\ a.num * b.den < b.num * a.den
FEq(a, b) == ~a.nan /\ ~b.nan /\ a.num * b.den = b.num * a.den

\* A length specification: an int, or a float given in tenths.
PInt(k) == [t |-> "int", v |-> k]
PFloat(tenths) == [t |-> "float", v |-> tenths]

\* p < 1
LessThanOne(q) == IF q.t = "int" THEN q.v < 1 ELSE q.v < 10

\* A round() that takes an exact half up.
RoundHalfUp(num, den) == (2 * num + den) \div (2 * den)

\* Python 3's round() of num/den (den > 0): to nearest, an exact half to even.
RoundHalfEven(num, den) ==
    LET q == num \div den
        r == num % den
    IN  IF 2 * r < den THEN q
        ELSE IF 2 * r > den THEN q + 1
        ELSE IF q % 2 = 0 THEN q ELSE q + 1

\* int(round(p*len(blob.sentences)))
Resolve(q, n) ==
    PInt(IF q.t = "int" THEN q.v * n ELSE RoundHalfEven(q.v * n, 10))

----------------------------------------------------------------------------
(* Sequences *)

Reverse(s) == [k \in 1..Len(s) |-> s[Len(s) + 1 - k]]

\* The order a sort compares by: the key x[1] (the score), or the whole tuple.
Before(mode, a, b) ==
    IF mode = "score" THEN FLt(a.s, b.s)
    ELSE a.i < b.i \/ (a.i = b.i /\ FLt(a.s, b.s))

\* list.sort's binary insertion: the place of x in the sorted list L, to the
\* right of every element x is not before.  lo and hi are 0-based.
RECURSIVE BinPos(_, _, _, _, _)
BinPos(mode, L, x, lo, hi) ==
    IF lo >= hi THEN lo
    ELSE LET m == (lo + hi) \div 2
         IN  IF Before(mode, x, L[m + 1]) THEN BinPos(mode, L, x, lo, m)
             ELSE BinPos(mode, L, x, m + 1, hi)

InsertAt(L, k, x) ==
    [j \in 1..(Len(L) + 1) |-> IF j <= k THEN L[j] ELSE IF j = k + 1 THEN x ELSE L[j - 1]]

\* A stable ascending sort.
RECURSIVE SortAsc(_, _)
SortAsc(mode, L) ==
    IF Len(L) <= 1 THEN L
    ELSE LET front == SortAsc(mode, SubSeq(L, 1, Len(L) - 1))
             x == L[Len(L)]
         IN  InsertAt(front, BinPos(mode, front, x, 0, Len(front)), x)

\* L[:k] for an int k: a negative k counts from the end.
Slice(L, k) ==
    IF k >= 0 THEN SubSeq(L, 1, IF k < Len(L) THEN k ELSE Len(L))
    ELSE SubSeq(L, 1, IF Len(L) + k > 0 THEN Len(L) + k ELSE 0)

----------------------------------------------------------------------------
(* The library calls of summarize *)

\* The distance metrics pdist knows (the docstring's list, abridged).
Metrics == {"cosine"}

\* A vectorizer that raises on no document.
VectorizerAcceptsAll(sentences) == FALSE

\* fit_transform raises ValueError("empty vocabulary; perhaps the documents
\* only contain stop words") when no sentence has a term that is not a stop
\* word; a document of no sentences is one such.
EmptyVocabulary(sentences) == \A k \in 1..Len(sentences) : ~sentences[k].terms

\* A pdist that takes every name for a metric.
AnyMetric(metric) == TRUE

\* pdist raises ValueError("Unknown Distance Metric: ...") for other names.
KnownMetric(metric) == metric \in Metrics

\* The number of rows squareform gives a condensed vector of length len;
\* an empty vector gives the 1 x 1 zero matrix.
Dim(len) == CHOOSE d \in 1..(len + 1) : d * (d - 1) = 2 * len

\* The pairs <<i, j>>, i < j < d, in the order pdist lists them, from <<i, j>> on.
RECURSIVE Pairs(_, _, _)
Pairs(d, i, j) ==
    IF i >= d - 1 THEN <<>>
    ELSE IF j >= d THEN Pairs(d, i + 1, i + 2)
    ELSE <<(<<i, j>>)>> \o Pairs(d, i, j + 1)

\* squareform(y): the symmetric matrix of the condensed vector y, its
\* diagonal zero.
squareform(y) ==
    LET d == Dim(Len(y))
        ps == Pairs(d, 0, 1)
        At(a, b) == y[CHOOSE k \in 1..Len(ps) : ps[k] = <<a, b>>]
    IN  [a \in 1..d |-> [b \in 1..d |->
            IF a = b THEN Num(0)
            ELSE IF a < b THEN At(a - 1, b - 1) ELSE At(b - 1, a - 1)]]

RECURSIVE SumNum(_)
SumNum(c) == IF Len(c) = 0 THEN 0 ELSE c[1].num + SumNum(Tail(c))

\* np.mean(c): nan as soon as one entry is.
mean(c) ==
    IF \E k \in 1..Len(c) : c[k].nan THEN NaN
    ELSE [nan |-> FALSE, num |-> SumNum(c), den |-> Len(c)]

\* np.nanmean(c): the mean of the entries that are not nan, nan when there
\* is none.  The entries are whole numbers.
nanmean(c) ==
    LET kept == SelectSeq(c, LAMBDA e : ~e.nan)
    IN  IF Len(kept) = 0 THEN NaN
        ELSE [nan |-> FALSE, num |-> SumNum(kept), den |-> Len(kept)]

----------------------------------------------------------------------------
(* The statements of summarize *)

\* sorted(scores, key=lambda x: x[1])[::-1]: equal scores end in descending
\* position.
sorted_then_reversed(s) == Reverse(SortAsc("score", s))

\* sorted(scores, key=lambda x: x[1], reverse=True): list.sort reverses the
\* list, sorts it stably and reverses it again.
sorted_by_score_reverse(s) == Reverse(SortAsc("score", Reverse(s)))

\* The selection left in ranking order.
unsorted(s) == s

\* sorted(summary): by the tuples (i, score).
sorted_tuples(s) == SortAsc("tuple", s)

Raise(e) ==
    /\ pc' = "raised"
    /\ err' = e

\* lines 52-54
ResolveLength ==
    /\ pc = "call"
    /\ p' = IF LessThanOne(p) THEN Resolve(p, Len(blob)) ELSE p
    /\ pc' = "resolved"
    /\ UNCHANGED <<blob, length_spec, scoring, tfidf, pd, scores, top_sentences,
                   summary, result, err>>
    /\ UNCHANGED markovVars

\* lines 57-66
ScoreSum ==
    /\ pc = "resolved"
    /\ scoring = "sum"
    /\ IF EmptyVocabulary(blob)
       THEN Raise("ValueError: empty vocabulary") /\ UNCHANGED scores
       ELSE /\ scores' = [k \in 1..Len(blob) |-> [i |-> k - 1, s |-> Num(tfidf[k])]]
            /\ pc' = "scored"
            /\ UNCHANGED err
    /\ UNCHANGED <<blob, length_spec, scoring, tfidf, pd, p, top_sentences,
                   summary, result>>
    /\ UNCHANGED markovVars

\* lines 68-82
ScoreDistance ==
    /\ pc = "resolved"
    /\ scoring # "sum"
    /\ IF EmptyVocabulary(blob)
       THEN Raise("ValueError: empty vocabulary") /\ UNCHANGED scores
       ELSE IF ~KnownMetric(scoring)
       THEN Raise("ValueError: Unknown Distance Metric") /\ UNCHANGED scores
       ELSE LET y == squareform(pd)
            IN  /\ scores' = [k \in 1..Len(y) |-> [i |-> k - 1, s |-> nanmean(y[k])]]
                /\ pc' = "scored"
                /\ UNCHANGED err
    /\ UNCHANGED <<blob, length_spec, scoring, tfidf, pd, p, top_sentences,
                   summary, result>>
    /\ UNCHANGED markovVars

\* lines 85-87: a float p is no slice index (TypeError)
Select ==
    /\ pc = "scored"
    /\ top_sentences' = sorted_by_score_reverse(scores)
    /\ IF p.t # "int"
       THEN Raise("TypeError: slice indices must be integers") /\ UNCHANGED summary
       ELSE /\ summary' = sorted_tuples(Slice(top_sentences', p.v))
            /\ pc' = "selected"
            /\ UNCHANGED err
    /\ UNCHANGED <<blob, length_spec, scoring, tfidf, pd, p, scores, result>>
    /\ UNCHANGED markovVars

\* lines 89-92
Assemble ==
    /\ pc = "selected"
    /\ IF \E k \in 1..Len(summary) : summary[k].i >= Len(blob)
       THEN Raise("IndexError: list index out of range") /\ UNCHANGED result
       ELSE /\ result' = [k \in 1..Len(summary) |-> blob[summary[k].i + 1].text]
            /\ pc' = "returned"
            /\ UNCHANGED err
    /\ UNCHANGED <<blob, length_spec, scoring, tfidf, pd, p, scores, top_sentences,
                   summary>>
    /\ UNCHANGED markovVars

----------------------------------------------------------------------------
(* The calls of summarize *)

\* The documents of n sentences: sentence k is the k-th text of the document
\* and has a term that is not a stop word, or none.
Documents(n) ==
    {[k \in 1..n |-> [text |-> k - 1, terms |-> t[k]]] : t \in [1..n -> BOOLEAN]}

\* The floats passed as p, in tenths.
FloatTenths == {-15, -5, 0, 2, 4, 5, 15} \cup {10 * k : k \in 1..MaxSentences}
LengthSpecs ==
    {PInt(k) : k \in (0 - MaxSentences)..(MaxSentences + 1)}
        \cup {PFloat(t) : t \in FloatTenths}

\* The row sums TfidfVectorizer can give a document: 0 for a row of no
\* term, positive otherwise.
RowSums(doc, top) ==
    {f \in [1..Len(doc) -> 0..top] : \A k \in 1..Len(doc) : (f[k] = 0) <=> ~doc[k].terms}

\* The vectors pdist can give a document: a distance is nan exactly when
\* one of its two count vectors is all zero (cosine), and is one of
\* 0..MaxDist otherwise.
DistVals == {NaN} \cup {Num(d) : d \in 0..MaxDist}
Condensed(doc) ==
    LET n == Len(doc)
        ps == Pairs(n, 0, 1)
    IN  {f \in [1..Len(ps) -> DistVals] :
            \A k \in 1..Len(ps) :
                f[k].nan <=> (~doc[ps[k][1] + 1].terms \/ ~doc[ps[k][2] + 1].terms)}

\* No Markov object is built in a call of summarize.
MarkovIdle ==
    /\ state_dict = <<>>
    /\ state = ""
    /\ out = <<>>
    /\ exc = ""

Locals ==
    /\ p = length_spec
    /\ scores = <<>>
    /\ top_sentences = <<>>
    /\ summary = <<>>
    /\ result = <<>>
    /\ pc = "call"
    /\ err = ""

Init ==
    /\ \E n \in 0..MaxSentences : blob \in Documents(n)
    /\ scoring \in {"sum", "bogus"} \cup Metrics
    /\ tfidf \in IF scoring = "sum" THEN RowSums(blob, MaxScore) ELSE {<<>>}
    /\ pd \in IF scoring \in Metrics THEN Condensed(blob) ELSE {<<>>}
    /\ length_spec \in LengthSpecs
    /\ Locals
    /\ MarkovIdle

Next ==
    \/ ResolveLength
    \/ ScoreSum
    \/ ScoreDistance
    \/ Select
    \/ Assemble

Spec == Init /\ [][Next]_vars

\* The calls summarize(text, p): documents of up to MaxDocLen sentences that
\* all have a term, p a count or a fraction in tenths.
InitLen ==
    /\ \E n \in 0..MaxDocLen :
          blob = [k \in 1..n |-> [text |-> k - 1, terms |-> TRUE]]
    /\ scoring = "sum"
    /\ tfidf \in [1..Len(blob) -> 1..MaxScoreLen]
    /\ pd = <<>>
    /\ length_spec \in {PInt(k) : k \in 1..(MaxDocLen + 1)} \cup {PFloat(t) : t \in 1..9}
    /\ Locals
    /\ MarkovIdle

NextLen ==
    \/ ResolveLength
    \/ ScoreSum
    \/ Select
    \/ Assemble

LenSpec == InitLen /\ [][NextLen]_vars

----------------------------------------------------------------------------
(* class Markov *)

Keys == {"A", "B", "C"}
Labels == Keys \cup {"D"}

\* One value of the state dictionary: np.array([a, p]), the probabilities p
\* in tenths.
Row(a, pr) == [a |-> a, p |-> pr]
Rows ==
    { Row(<<"A", "B", "C">>, <<2, 4, 4>>),
      Row(<<"A", "C">>, <<4, 6>>),
      Row(<<"A", "B">>, <<6, 4>>),
      Row(<<"B">>, <<10>>),
      Row(<<"B", "C">>, <<10, 0>>),
      Row(<<"A", "D">>, <<5, 5>>) }

\* The notebook's state_dict.
ExampleDict ==
    [k \in Keys |->
        CASE k = "A" -> Row(<<"A", "B", "C">>, <<2, 4, 4>>)
          [] k = "B" -> Row(<<"A", "C">>, <<4, 6>>)
          [] k = "C" -> Row(<<"A", "B">>, <<6, 4>>)]

\* A draw that ignores the row.
choice_any(a, pr) == Labels

\* np.random.choice(a=list(A[0]), p=list(A[1])): the values it can return.
choice(a, pr) == {a[k] : k \in {j \in 1..Len(a) : pr[j] > 0}}

SummarizeIdle ==
    /\ blob = <<>>
    /\ length_spec = PInt(0)
    /\ scoring = ""
    /\ tfidf = <<>>
    /\ pd = <<>>
    /\ p = PInt(0)
    /\ scores = <<>>
    /\ top_sentences = <<>>
    /\ summary = <<>>
    /\ result = <<>>
    /\ pc = "none"
    /\ err = ""

\* Markov(state_dict): the first key of a dict is any of its keys (the
\* order of a dict's keys is not fixed before Python 3.7).
MarkovInit ==
    /\ state_dict \in [Keys -> Rows]
    /\ state \in DOMAIN state_dict
    /\ out = <<>>
    /\ exc = ""
    /\ SummarizeIdle

check_state ==
    /\ out' = <<"Current State: %s", state>>
    /\ exc' = ""
    /\ UNCHANGED <<state_dict, state>>
    /\ UNCHANGED sumVars

set_state(s) ==
    /\ state' = s
    /\ out' = <<"State is now: %s", s>>
    /\ exc' = ""
    /\ UNCHANGED state_dict
    /\ UNCHANGED sumVars

\* self.state_dict[self.state] raises KeyError for a state that is no key.
next_state ==
    /\ IF state \notin DOMAIN state_dict
       THEN /\ exc' = "KeyError"
            /\ UNCHANGED <<state, out>>
       ELSE LET A == state_dict[state]
            IN  \E s \in choice(A.a, A.p) :
                    /\ state' = s
                    /\ out' = <<"New State: %s", s>>
                    /\ exc' = ""
    /\ UNCHANGED state_dict
    /\ UNCHANGED sumVars

MarkovNext ==
    \/ check_state
    \/ \E s \in Labels : set_state(s)
    \/ next_state

MarkovSpec == MarkovInit /\ [][MarkovNext]_vars

----------------------------------------------------------------------------
(* Vocabulary of the properties *)

N == Len(blob)
Positions == 0..(N - 1)
Ended == pc \in {"returned", "raised"}
Ranked == pc \in {"selected", "returned"}
Scored == pc \in {"scored", "selected", "returned"}
Recognized == scoring \in {"sum"} \cup Metrics
HasTerm == \E k \in 1..N : blob[k].terms
Min(a, b) == IF a < b THEN a ELSE b
Abs(a) == IF a < 0 THEN 0 - a ELSE a

\* The score of the sentence at position i, and the positions selected.
ScoreOf(i) == scores[i + 1].s
Selected == {summary[k].i : k \in 1..Len(summary)}

\* The integer nearest to num/den, an exact half going to the even one.
Nearest(num, den) ==
    CHOOSE m \in (0 - Abs(num))..Abs(num) :
        \/ 2 * Abs(den * m - num) < den
        \/ 2 * Abs(den * m - num) = den /\ m % 2 = 0

\* The length a positive length_spec stands for: a fraction of the sentence
\* count below 1, a count (truncated to an integer) from 1 on.
ResolvedLength ==
    IF length_spec.t = "int" THEN length_spec.v
    ELSE IF length_spec.v < 10 THEN Nearest(length_spec.v * N, 10)
    ELSE length_spec.v \div 10

\* The distance pdist gave for the sentences at positions i # j: the entry
\* of the condensed vector at N*i - i(i+1)/2 + (j - i - 1), i < j.
Dist(i, j) ==
    LET a == Min(i, j)
        b == IF i < j THEN j ELSE i
    IN  pd[N * a - (a * (a + 1)) \div 2 + (b - a - 1) + 1]
Defined(i) == {j \in Positions \ {i} : ~Dist(i, j).nan}
RECURSIVE SumDist(_, _)
SumDist(i, S) ==
    IF S = {} THEN 0
    ELSE LET j == CHOOSE x \in S : TRUE IN Dist(i, j).num + SumDist(i, S \ {j})

\* The number of sentences ranked before the one at position i: those of a
\* higher score, and those of the same score at a lower position.
Rank(i) ==
    Cardinality({j \in Positions :
        FLt(ScoreOf(i), ScoreOf(j)) \/ (FEq(ScoreOf(i), ScoreOf(j)) /\ j < i)})

----------------------------------------------------------------------------
(* Properties of summarize *)

\* C1 (as claimed): a call on a document with a term, a positive length_spec
\* and a recognized scoring returns, and its summary has
\* min(resolved length, n) sentences, a float from 1 on standing for the
\* count it truncates to.
C1_LengthBound ==
    (Ended /\ N >= 1 /\ HasTerm /\ length_spec.v > 0 /\ Recognized)
        => (pc = "returned" /\ Len(result) = Min(ResolvedLength, N))

\* C2: the positions of the sentences of the summary are strictly
\* increasing, in the list summary and in the text returned.
C2_Chronological ==
    Ranked =>
        /\ \A k \in 1..(Len(summary) - 1) : summary[k].i < summary[k + 1].i
        /\ pc = "returned" =>
              /\ Len(result) = Len(summary)
              /\ \A k \in 1..Len(result) : result[k] = blob[summary[k].i + 1].text
              /\ \A k \in 1..(Len(result) - 1) :
                    \E a, b \in 1..N :
                        a < b /\ blob[a].text = result[k] /\ blob[b].text = result[k + 1]
C2_Witness ==
    /\ pc = "returned"
    /\ Len(result) >= 2
    /\ \E k \in 1..(Len(summary) - 1) : top_sentences[k].i > top_sentences[k + 1].i

\* C3: the sentences selected are the first entries of the ranking by score
\* descending, ties by lower position first: no sentence left out has a
\* higher score than a selected one, and of two sentences of the same score
\* the one selected alone has the lower position.
C3_TopByScore ==
    Ranked =>
        /\ Selected = {i \in Positions : Rank(i) < Len(summary)}
        /\ p.v >= 0 => Len(summary) = Min(p.v, N)
        /\ \A i \in Selected : \A j \in Positions \ Selected :
              /\ ~FLt(ScoreOf(i), ScoreOf(j))
              /\ FEq(ScoreOf(i), ScoreOf(j)) => i < j
C3_Witness ==
    /\ Ranked
    /\ \E i \in Selected : \E j \in Positions \ Selected : FEq(ScoreOf(i), ScoreOf(j))

\* C4 (as claimed): when length_spec is the sentence count, as the float 1.0
\* on a document of one sentence or as an int from 1 on, the call returns
\* all the sentences of the document in their order.
C4_FullLength ==
    (/\ Ended /\ HasTerm /\ Recognized
     /\ \/ length_spec.t = "int" /\ length_spec.v >= 1 /\ length_spec.v = N
        \/ length_spec.t = "float" /\ length_spec.v >= 10 /\ length_spec.v = 10 * N)
        => (pc = "returned" /\ result = [k \in 1..N |-> blob[k].text])

C6_InvalidLength ==
    (Ended /\ length_spec.v <= 0) => (pc = "raised" /\ result = <<>>)

\* C7 (as claimed): a call whose scoring is neither "sum" nor a metric ends
\* in the unknown-metric error, whatever the document and the length_spec.
C7_UnknownStrategyAlways ==
    (Ended /\ ~Recognized)
        => (pc = "raised" /\ err = "ValueError: Unknown Distance Metric")

\* C7 (amended): a call whose scoring is neither "sum" nor a metric never
\* scores, selects or returns; it ends in the unknown-metric error when a
\* sentence of the document has a term, and in the vectorizer's
\* empty-vocabulary error when none has (the empty document is one).
C7_UnknownStrategy ==
    ~Recognized =>
        /\ pc \in {"call", "resolved", "raised"}
        /\ scores = <<>> /\ summary = <<>> /\ result = <<>>
        /\ pc = "raised" =>
              err = IF HasTerm THEN "ValueError: Unknown Distance Metric"
                    ELSE "ValueError: empty vocabulary"
C7_Witness ==
    /\ pc = "raised"
    /\ scoring = "bogus"
    /\ HasTerm
    /\ err = "ValueError: Unknown Distance Metric"

\* C8: a call on a document of no sentences never scores, selects or
\* returns, whatever the length_spec and the scoring: it ends in the
\* vectorizer's empty-vocabulary error.
C8_EmptyDocument ==
    N = 0 =>
        /\ pc \in {"call", "resolved", "raised"}
        /\ scores = <<>> /\ summary = <<>> /\ result = <<>>
        /\ pc = "raised" => err = "ValueError: empty vocabulary"
C8_Witness ==
    /\ N = 0
    /\ pc = "raised"
    /\ err = "ValueError: empty vocabulary"

\* C9 (as claimed): in the distance strategy a sentence whose distances to
\* all the other sentences are undefined has an undefined score.
C9_UndefinedScore ==
    (Scored /\ scoring \in Metrics) =>
        \A i \in Positions : (N >= 2 /\ Defined(i) = {}) => ScoreOf(i).nan

\* C9 (amended): in the distance strategy the score of sentence i is the
\* mean of row i of the square distance matrix without its undefined
\* entries, the zero of the diagonal counted; so a sentence whose distances
\* to all the others are undefined has the score 0 and none is undefined.
\* The sentences are ranked by score descending, those of the same score by
\* ascending position.
C9_DistanceScore ==
    (Scored /\ scoring \in Metrics) =>
        /\ Len(scores) = N
        /\ \A i \in Positions :
              /\ scores[i + 1].i = i
              /\ ~ScoreOf(i).nan
              /\ ScoreOf(i).num * (1 + Cardinality(Defined(i)))
                    = ScoreOf(i).den * SumDist(i, Defined(i))
              /\ Defined(i) = {} => ScoreOf(i).num = 0
        /\ Ranked =>
              /\ Len(top_sentences) = N
              /\ \A k \in 1..(N - 1) :
                    \/ FLt(top_sentences[k + 1].s, top_sentences[k].s)
                    \/ /\ FEq(top_sentences[k + 1].s, top_sentences[k].s)
                       /\ top_sentences[k].i < top_sentences[k + 1].i
C9_Witness ==
    /\ Ranked
    /\ scoring \in Metrics
    /\ \E i, j \in Positions :
          /\ Defined(i) = {}
          /\ ScoreOf(j).num > 0
          /\ i < j

----------------------------------------------------------------------------
(* Properties of Markov *)

\* Every target a row lists is a key.
Closed(sd) ==
    \A k \in DOMAIN sd : \A j \in 1..Len(sd[k].a) : sd[k].a[j] \in DOMAIN sd

\* One step of a Markov object, as C10 describes it.
C10_Step ==
    /\ (Closed(state_dict) /\ state \in DOMAIN state_dict) =>
          /\ (next_state \/ check_state) => state' \in DOMAIN state_dict
          /\ next_state =>
                /\ \E j \in 1..Len(state_dict[state].a) :
                      state' = state_dict[state].a[j]
                /\ exc' = ""
          /\ state' \notin DOMAIN state_dict => \E s \in Labels : set_state(s)
    /\ (state \notin DOMAIN state_dict /\ next_state) =>
          (exc' = "KeyError" /\ state' = state)
\* C10: a Markov object starts in a key of its state_dict.  When every
\* target the state_dict lists is a key, next_state and check_state keep the
\* state a key, next_state moves to a target listed for the state it was
\* called in, and only set_state takes the state from a key to a value that
\* is no key.  In such a state next_state raises KeyError and changes
\* nothing.
C10_StaysOnKeys == state \in DOMAIN state_dict /\ [][C10_Step]_vars
C10_Witness ==
    /\ state_dict = ExampleDict
    /\ out = <<"New State: %s", "C">>
    /\ state = "C"

====
